---- MODULE Spec2Model ----
(***************************************************************************)
(* Model of lab0/c_src/main.c: a generator of tagged records (ExportData)  *)
(* cycling through three variants and two source tables, and the main      *)
(* routine that allocates a buffer, fills it, opens the sink, writes the   *)
(* buffer with one fwrite and frees it.                                    *)
(*                                                                         *)
(* Floats 1.0 .. 10.0 are modelled by the integers 1 .. 10 (all exactly    *)
(* representable).  A char[21] holding a NUL padded string is modelled by  *)
(* the string itself.  C arrays are 0-based, TLA+ sequences 1-based: the   *)
(* C element a[k] is the TLA+ element a[k + 1].                            *)
(*                                                                         *)
(* Dereferencing a null pointer is undefined behaviour: the model takes    *)
(* a nondeterministic choice between the process being killed and the      *)
(* access having no effect on the program's own state.                     *)
(***************************************************************************)
EXTENDS Integers, Sequences, FiniteSets, TLC

\* ------------------------------------------------------------ bounds
MaxN == 31
MaxFillN == 4
MaxFills == 2
MaxClock == 1

\* ------------------------------------------------- program constants
VALUE == 1
M_VALUE == 2
MESSAGE == 3
EXPORT_STRINGS_LEN == 7
FLOAT_ARRAY_LEN == 10
SizeofExportData == 64

ExportStringsInit ==
    << "Bella", "Test", "Pippo", "Pluto", "42",
       "AnswerToTheUniverse", "E tutto il resto..." >>

FloatArrayInit == << 1, 2, 3, 4, 5, 6, 7, 8, 9, 10 >>

VARIABLES
    pc,              \* position in main / in the test driver
    op,              \* name of the last operation executed
    caller,          \* who called fill_export_data: "main" or "test"
    len,             \* the len / data_len argument
    i,               \* loop index of fill_export_data
    data,            \* the record buffer
    bufState,        \* "none", "null" (malloc failed), "live", "freed"
    fp,              \* "none", "null" (fopen failed), "open"
    sink,            \* blocks held by the file ../data
    nwritten,        \* return value of fwrite (discarded by export)
    val_counter,     \* static int val_counter
    string_counter,  \* static int string_counter
    float_array,     \* global float float_array[]
    export_strings,  \* global char export_strings[][21]
    now,             \* value time(NULL) returns
    ret,             \* value returned by a direct call of the test driver
    fills            \* number of calls of fill_export_data so far

vars == << pc, op, caller, len, i, data, bufState, fp, sink, nwritten,
           val_counter, string_counter, float_array, export_strings,
           now, ret, fills >>

\* Contents of memory that was never written.
Uninit == [indeterminate |-> TRUE]
\* A block of a file left by an earlier run.
OldBlock == [old |-> TRUE]

IsInit(r) == "type" \in DOMAIN r

UBOutcomes == {"crash", "continue"}

\* ---------------------------------------------------- the generator

\* Mutants of get_value_struct: the cursor is not advanced; the
\* timestamp is not read from the clock.
get_value_struct_stuck ==
    [ value |-> [type |-> VALUE,
                 val |-> float_array[val_counter + 1],
                 timestamp |-> now],
      val_counter |-> val_counter ]

get_value_struct_nostamp ==
    [ value |-> [type |-> VALUE,
                 val |-> float_array[val_counter + 1],
                 timestamp |-> 0],
      val_counter |-> (val_counter + 1) % FLOAT_ARRAY_LEN ]

\* ValueStruct get_value_struct(void)
get_value_struct ==
    [ value |-> [type |-> VALUE,
                 val |-> float_array[val_counter + 1],
                 timestamp |-> now],
      val_counter |-> (val_counter + 1) % FLOAT_ARRAY_LEN ]

\* Mutant of get_m_value_struct: the copy starts at the float cursor.
get_m_value_struct_from_cursor ==
    [ value |-> [type |-> M_VALUE,
                 val |-> [k \in 1..FLOAT_ARRAY_LEN |->
                            float_array[((val_counter + k - 1)
                                           % FLOAT_ARRAY_LEN) + 1]],
                 timestamp |-> now] ]

\* MValueStruct get_m_value_struct(void)
get_m_value_struct ==
    [ value |-> [type |-> M_VALUE,
                 val |-> [k \in 1..FLOAT_ARRAY_LEN |-> float_array[k]],
                 timestamp |-> now] ]

\* Mutants of get_message_struct: the cursor advances by two; the
\* cursor is not wrapped.
get_message_struct_skip ==
    [ value |-> [type |-> MESSAGE,
                 message |-> export_strings[string_counter + 1]],
      string_counter |-> (string_counter + 2) % EXPORT_STRINGS_LEN ]

get_message_struct_nowrap ==
    [ value |-> [type |-> MESSAGE,
                 message |-> export_strings[string_counter + 1]],
      string_counter |-> string_counter + 1 ]

\* MessageStruct get_message_struct(void)
get_message_struct ==
    [ value |-> [type |-> MESSAGE,
                 message |-> export_strings[string_counter + 1]],
      string_counter |-> (string_counter + 1) % EXPORT_STRINGS_LEN ]

\* The compound literals of the switch in fill_export_data.
ExportValue(v) == [type |-> VALUE, val |-> v]
ExportMValue(v) == [type |-> M_VALUE, mvals |-> v]
ExportMessage(v) == [type |-> MESSAGE, messages |-> v]

\* Mutant of Selector: the cycle starts one variant late.
SelectorShifted(idx) == (idx + 1) % 3

\* The variant selected by the switch.
Selector(idx) == idx % 3

\* Mutant of Iteration: building a Vector record also advances the
\* float cursor.
IterationVectorAdvances(idx) ==
    CASE Selector(idx) = 0 ->
           [ export |-> ExportValue(get_value_struct.value),
             op |-> "get_value_struct",
             val_counter |-> get_value_struct.val_counter,
             string_counter |-> string_counter ]
      [] Selector(idx) = 1 ->
           [ export |-> ExportMValue(get_m_value_struct.value),
             op |-> "get_m_value_struct",
             val_counter |-> get_value_struct.val_counter,
             string_counter |-> string_counter ]
      [] Selector(idx) = 2 ->
           [ export |-> ExportMessage(get_message_struct.value),
             op |-> "get_message_struct",
             val_counter |-> val_counter,
             string_counter |-> get_message_struct.string_counter ]

\* One iteration of the loop body up to (not including) data[i] = export:
\* the record built and the cursors after the call.
Iteration(idx) ==
    CASE Selector(idx) = 0 ->
           [ export |-> ExportValue(get_value_struct.value),
             op |-> "get_value_struct",
             val_counter |-> get_value_struct.val_counter,
             string_counter |-> string_counter ]
      [] Selector(idx) = 1 ->
           [ export |-> ExportMValue(get_m_value_struct.value),
             op |-> "get_m_value_struct",
             val_counter |-> val_counter,
             string_counter |-> string_counter ]
      [] Selector(idx) = 2 ->
           [ export |-> ExportMessage(get_message_struct.value),
             op |-> "get_message_struct",
             val_counter |-> val_counter,
             string_counter |-> get_message_struct.string_counter ]

\* The payload struct of a stored record.
Payload(r) ==
    CASE r.type = VALUE -> r.val
      [] r.type = M_VALUE -> r.mvals
      [] r.type = MESSAGE -> r.messages

tables == << float_array, export_strings >>
cursors == << val_counter, string_counter >>
mainOnly == << bufState, fp, sink, nwritten >>

\* for (...; i < len; ...) body with a valid buffer: build and store.
FillIter ==
    /\ pc = "fill"
    /\ i < len
    /\ bufState = "live"
    /\ LET it == Iteration(i) IN
         /\ val_counter' = it.val_counter
         /\ string_counter' = it.string_counter
         /\ op' = it.op
         /\ data' = [data EXCEPT ![i + 1] = it.export]
    /\ i' = i + 1
    /\ UNCHANGED << pc, caller, len, mainOnly, tables, now, ret, fills >>

\* The same iteration when data is NULL: the record is built, the store
\* data[i] = export dereferences a null pointer.
FillIterNull ==
    /\ pc = "fill"
    /\ i < len
    /\ bufState = "null"
    /\ LET it == Iteration(i) IN
         /\ val_counter' = it.val_counter
         /\ string_counter' = it.string_counter
         /\ op' = it.op
    /\ \E o \in UBOutcomes :
         IF o = "crash"
           THEN pc' = "crashed" /\ i' = i
           ELSE pc' = pc /\ i' = i + 1
    /\ UNCHANGED << caller, len, data, mainOnly, tables, now, ret, fills >>

\* Loop exit and return to the caller.
FillReturn ==
    /\ pc = "fill"
    /\ i >= len
    /\ pc' = IF caller = "main" THEN "fopen" ELSE "idle"
    /\ op' = "fill_return"
    /\ UNCHANGED << caller, len, i, data, mainOnly, cursors, tables,
                    now, ret, fills >>

\* The wall clock advances.
Tick ==
    /\ now < MaxClock
    /\ pc \notin {"done", "crashed"}
    /\ now' = now + 1
    /\ op' = "tick"
    /\ UNCHANGED << pc, caller, len, i, data, mainOnly, cursors, tables,
                    ret, fills >>

\* -------------------------------------------------------------- main

\* Mutant of MainNext: the write is repeated.
MainNextWriteAgain(p) ==
    CASE p = "malloc" -> "fill"
      [] p = "fopen" -> "export"
      [] p = "export" -> "export"
      [] p = "free" -> "return"
      [] p = "return" -> "done"

\* Statement order of main after the allocation.
MainNext(p) ==
    CASE p = "malloc" -> "fill"
      [] p = "fopen" -> "export"
      [] p = "export" -> "free"
      [] p = "free" -> "return"
      [] p = "return" -> "done"

\* data = malloc(sizeof(ExportData) * len); then the call of
\* fill_export_data with its loop initialisation.
Malloc ==
    /\ pc = "malloc"
    /\ \E ok \in BOOLEAN :
         IF ok
           THEN /\ bufState' = "live"
                /\ data' = [j \in 1..len |-> Uninit]
           ELSE /\ bufState' = "null"
                /\ data' = << >>
    /\ pc' = MainNext(pc)
    /\ i' = 0
    /\ fills' = fills + 1
    /\ op' = "malloc"
    /\ UNCHANGED << caller, len, fp, sink, nwritten, cursors, tables,
                    now, ret >>

\* Mutant of OpenedContents: the file is opened for appending.
OpenedContentsAppend(old) == old

\* Mode "w": an existing file is truncated to length zero.
OpenedContents(old) == << >>

\* fp = fopen("../data", "w");
Fopen ==
    /\ pc = "fopen"
    /\ \E ok \in BOOLEAN :
         IF ok
           THEN fp' = "open" /\ sink' = OpenedContents(sink)
           ELSE fp' = "null" /\ sink' = sink
    /\ pc' = MainNext(pc)
    /\ op' = "fopen"
    /\ UNCHANGED << caller, len, i, data, bufState, nwritten, cursors,
                    tables, now, ret, fills >>

\* The item count export passes to fwrite.
ExportCount(data_len) == data_len

\* export(data, len, fp) with valid arguments: one fwrite of
\* data_len items, of which k are written; the return value is dropped.
Export ==
    /\ pc = "export"
    /\ fp = "open"
    /\ bufState = "live" \/ ExportCount(len) = 0
    /\ \E k \in 0..ExportCount(len) :
         /\ sink' = sink \o SubSeq(data, 1, k)
         /\ nwritten' = k
    /\ pc' = MainNext(pc)
    /\ op' = "export"
    /\ UNCHANGED << caller, len, i, data, bufState, fp, cursors, tables,
                    now, ret, fills >>

\* export called with fp = NULL, or with data = NULL and a positive
\* count: fwrite dereferences a null pointer.
ExportNull ==
    /\ pc = "export"
    /\ fp = "null" \/ (bufState = "null" /\ ExportCount(len) > 0)
    /\ \E o \in UBOutcomes :
         IF o = "crash"
           THEN pc' = "crashed" /\ nwritten' = nwritten
           ELSE pc' = MainNext(pc) /\ nwritten' = 0
    /\ op' = "export"
    /\ UNCHANGED << caller, len, i, data, bufState, fp, sink, cursors,
                    tables, now, ret, fills >>

\* free(data); free(NULL) does nothing.
Free ==
    /\ pc = "free"
    /\ bufState' = IF bufState = "live" THEN "freed" ELSE bufState
    /\ pc' = MainNext(pc)
    /\ op' = "free"
    /\ UNCHANGED << caller, len, i, data, fp, sink, nwritten, cursors,
                    tables, now, ret, fills >>

\* return 0;
Return ==
    /\ pc = "return"
    /\ pc' = MainNext(pc)
    /\ op' = "return"
    /\ UNCHANGED << caller, len, i, data, mainOnly, cursors, tables,
                    now, ret, fills >>

\* State common to both specifications at process start.
InitStatics ==
    /\ val_counter = 0
    /\ string_counter = 0
    /\ float_array = FloatArrayInit
    /\ export_strings = ExportStringsInit
    /\ now = 0
    /\ op = "start"
    /\ i = 0
    /\ data = << >>
    /\ bufState = "none"
    /\ fp = "none"
    /\ nwritten = -1
    /\ ret = Uninit
    /\ fills = 0

\* The program: the record count (EXPORT_DATA_LEN in main) ranges over
\* 0..MaxN; the file may exist already.
Init ==
    /\ InitStatics
    /\ pc = "malloc"
    /\ caller = "main"
    /\ len \in 0..MaxN
    /\ sink \in {<< >>, << OldBlock >>}

Next ==
    \/ Malloc
    \/ FillIter
    \/ FillIterNull
    \/ FillReturn
    \/ Fopen
    \/ Export
    \/ ExportNull
    \/ Free
    \/ Return
    \/ Tick

Spec == Init /\ [][Next]_vars

\* ------------------------------------------------------- test driver
\* The generator functions called directly, in any order, and
\* fill_export_data called repeatedly on a caller supplied buffer.

CallValue ==
    /\ pc = "idle"
    /\ ret' = get_value_struct.value
    /\ val_counter' = get_value_struct.val_counter
    /\ op' = "get_value_struct"
    /\ data' = << >>
    /\ UNCHANGED << pc, caller, len, i, mainOnly, string_counter, tables,
                    now, fills >>

CallMValue ==
    /\ pc = "idle"
    /\ ret' = get_m_value_struct.value
    /\ op' = "get_m_value_struct"
    /\ data' = << >>
    /\ UNCHANGED << pc, caller, len, i, mainOnly, cursors, tables, now,
                    fills >>

CallMessage ==
    /\ pc = "idle"
    /\ ret' = get_message_struct.value
    /\ string_counter' = get_message_struct.string_counter
    /\ op' = "get_message_struct"
    /\ data' = << >>
    /\ UNCHANGED << pc, caller, len, i, mainOnly, val_counter, tables,
                    now, fills >>

CallFill ==
    /\ pc = "idle"
    /\ fills < MaxFills
    /\ \E n \in 0..MaxFillN :
         /\ len' = n
         /\ data' = [j \in 1..n |-> Uninit]
    /\ bufState' = "live"
    /\ i' = 0
    /\ pc' = "fill"
    /\ fills' = fills + 1
    /\ ret' = Uninit
    /\ op' = "call_fill"
    /\ UNCHANGED << caller, fp, sink, nwritten, cursors, tables, now >>

InitGen ==
    /\ InitStatics
    /\ pc = "idle"
    /\ caller = "test"
    /\ len = 0
    /\ sink = << >>

NextGen ==
    \/ CallValue
    \/ CallMValue
    \/ CallMessage
    \/ CallFill
    \/ FillIter
    \/ FillReturn
    \/ Tick

SpecGen == InitGen /\ [][NextGen]_vars

\* ------------------------------------------------------- properties

\* The buffer holds the records stored so far.
Stored == bufState = "live"

\* Number of records constructed so far in the program: one more than i
\* when the process was killed at the store of the record just built.
Built ==
    IF pc = "crashed" /\ op # "export" THEN i + 1 ELSE i

\* Size of the sink in bytes.
SinkBytes == Len(sink) * SizeofExportData

\* C1: record i has discriminant 1 if i mod 3 = 0, 2 if i mod 3 = 1 and
\* 3 if i mod 3 = 2, for every stored index, and once fill_export_data
\* has returned for every index below N, a trailing partial cycle
\* included.
C1_Discriminant ==
    Stored =>
      /\ \A j \in 1..i :
           /\ ((j - 1) % 3 = 0 => data[j].type = 1 /\ data[j].val.type = 1)
           /\ ((j - 1) % 3 = 1 => data[j].type = 2 /\ data[j].mvals.type = 2)
           /\ ((j - 1) % 3 = 2 => data[j].type = 3
                                   /\ data[j].messages.type = 3)
      /\ (pc \notin {"malloc", "fill"} => i = len)

C1_Witness ==
    /\ pc = "export"
    /\ Stored
    /\ len = 7
    /\ data[7].type = 1
    /\ data[6].type = 3

\* C2: the float cursor starts at 0 and advances once per Scalar record:
\* the record at index 3k carries float_array[k mod 10]; index 27
\* (the 10th Scalar) carries the last table value and index 30 the
\* first one again.
C2_FloatCursor ==
    /\ bufState \in {"none", "live", "null"} =>
         val_counter = ((Built + 2) \div 3) % 10
    /\ Stored =>
         \A j \in 1..i :
           (j - 1) % 3 = 0 =>
             data[j].val.val = FloatArrayInit[(((j - 1) \div 3) % 10) + 1]
    /\ (Stored /\ i > 30) =>
         data[28].val.val = 10 /\ data[31].val.val = 1

C2_Witness ==
    /\ Stored
    /\ len = 31
    /\ i = 31
    /\ data[31].val.val = 1
    /\ data[28].val.val = 10

\* C3: the string cursor starts at 0 and advances once per Message
\* record: the record at index 3k + 2 carries export_strings[k mod 7],
\* so the 8th Message record carries the first string again.
C3_StringCursor ==
    /\ bufState \in {"none", "live", "null"} =>
         string_counter = (Built \div 3) % 7
    /\ Stored =>
         \A j \in 1..i :
           (j - 1) % 3 = 2 =>
             data[j].messages.message =
               ExportStringsInit[(((j - 1) \div 3) % 7) + 1]

C3_Witness ==
    /\ Stored
    /\ i = 24
    /\ data[24].messages.message = "Bella"
    /\ data[21].messages.message = "E tutto il resto..."
    /\ data[3].messages.message = "Bella"

\* C4: every Vector record, returned by a direct call or stored by
\* fill_export_data, carries the whole float table in table order,
\* wherever the float cursor stands.
C4_VectorPayload ==
    /\ (IsInit(ret) /\ ret.type = M_VALUE) => ret.val = FloatArrayInit
    /\ \A j \in 1..Len(data) :
         (IsInit(data[j]) /\ data[j].type = M_VALUE) =>
           data[j].mvals.val = FloatArrayInit

C4_Witness ==
    /\ op = "get_m_value_struct"
    /\ IsInit(ret)
    /\ ret.type = M_VALUE
    /\ val_counter = 7

\* C5: when the buffer was allocated, the sink opened and the write
\* complete, the sink holds exactly N blocks, N * sizeof(ExportData)
\* bytes, block j being record j, and nothing else; for N = 0 it is
\* empty.
C5_SinkContents ==
    (/\ pc \in {"free", "return", "done"}
     /\ fp = "open"
     /\ nwritten = len) =>
       /\ Len(sink) = len
       /\ SinkBytes = len * SizeofExportData
       /\ \A j \in 1..len : IsInit(sink[j]) /\ sink[j] = data[j]
       /\ (len = 0 => sink = << >>)

C5_Witness ==
    /\ pc = "done"
    /\ fp = "open"
    /\ len = 31
    /\ nwritten = 31
    /\ Len(sink) = 31
    /\ sink[31].type = 1

\* C6: each failure ends the run where it occurs: after an allocation
\* failure no record is generated or stored and no later step runs;
\* after a failed fopen no write is attempted; after a short write the
\* run does not complete normally.
C6_FailuresAreTerminal ==
    /\ (bufState = "null" /\ len > 0) =>
         /\ val_counter = 0
         /\ string_counter = 0
         /\ i = 0
         /\ pc \notin {"fopen", "export", "free", "return", "done"}
    /\ fp = "null" =>
         /\ op # "export"
         /\ pc \notin {"free", "return", "done"}
    /\ (nwritten # -1 /\ nwritten < len) => pc # "done"

\* C7 as stated: every stored Scalar and Message record carries a
\* timestamp, and these timestamps are non-decreasing in generation
\* order.
C7_ScalarAndMessageStamped ==
    Stored =>
      /\ \A j \in 1..i :
           data[j].type \in {VALUE, MESSAGE} =>
             "timestamp" \in DOMAIN Payload(data[j])
      /\ \A j, k \in 1..i :
           (/\ j < k
            /\ data[j].type \in {VALUE, MESSAGE}
            /\ data[k].type \in {VALUE, MESSAGE}) =>
              Payload(data[j]).timestamp <= Payload(data[k]).timestamp

Stamped(r) == r.type \in {VALUE, M_VALUE}

\* C7 amended: a Scalar or Vector record stored by an iteration carries
\* the clock value read in that iteration, a Message record has no
\* timestamp field, and the timestamps of the stamped records are
\* non-decreasing in generation order.
C7_StampedAtConstruction ==
    /\ [](Stored =>
            \A j, k \in 1..i :
              (j < k /\ Stamped(data[j]) /\ Stamped(data[k])) =>
                Payload(data[j]).timestamp <= Payload(data[k]).timestamp)
    /\ [][(pc = "fill" /\ Stored /\ i' = i + 1) =>
            LET r == data'[i + 1] IN
              /\ Stamped(r) => Payload(r).timestamp = now
              /\ r.type = MESSAGE =>
                   DOMAIN Payload(r) = {"type", "message"}]_vars

C7_Witness ==
    /\ Stored
    /\ i >= 5
    /\ data[1].val.timestamp = 0
    /\ data[3].type = MESSAGE
    /\ data[4].val.timestamp = 1
    /\ data[5].mvals.timestamp = 1

\* No allocation and no open failed in this run.
NoFailure == bufState # "null" /\ fp # "null"

\* C8: the buffer is allocated before generation, the slots are assigned
\* in increasing index order, once each, and keep their contents; the
\* sink is opened only after the last record is stored; nothing is
\* written before that; the write happens once; the buffer is released
\* once and only after the write, and a run without failure that ends
\* has written and released.
C8_StepOrder ==
    /\ [](/\ (i > 0 \/ pc \notin {"malloc"}) => bufState # "none"
          /\ Stored => \A j \in 1..len : IsInit(data[j]) <=> j <= i
          /\ fp # "none" => i = len /\ pc \notin {"malloc", "fill"}
          /\ (nwritten # -1 \/ Len(sink) > 1) => fp # "none" /\ i = len
          /\ bufState = "freed" =>
               /\ nwritten # -1
               /\ \A j \in 1..len : IsInit(data[j])
          /\ (pc = "done" /\ NoFailure) =>
               bufState = "freed" /\ nwritten # -1)
    /\ [][/\ \A j \in 1..Len(data) :
               IsInit(data[j]) =>
                 Len(data') = Len(data) /\ data'[j] = data[j]
          /\ nwritten # -1 => nwritten' = nwritten /\ sink' = sink
          /\ bufState = "freed" => bufState' = "freed" /\ op' # "free"
          /\ bufState # bufState' =>
               \/ bufState = "none" /\ op' = "malloc"
               \/ bufState = "live" /\ bufState' = "freed" /\ op' = "free"
         ]_vars

C8_Witness ==
    /\ pc = "done"
    /\ bufState = "freed"
    /\ fp = "open"
    /\ len = 31
    /\ nwritten = 31

\* C9: after any calls of the three generator functions in any order
\* the float cursor is in 0..9 and the string cursor in 0..6, so every
\* table read is in range.
C9_CursorsInRange ==
    /\ val_counter \in 0..9
    /\ string_counter \in 0..6
    /\ val_counter + 1 \in DOMAIN float_array
    /\ string_counter + 1 \in DOMAIN export_strings
    /\ pc # "crashed"

C9_Witness ==
    /\ op = "get_message_struct"
    /\ IsInit(ret)
    /\ ret.type = MESSAGE
    /\ ret.message = "E tutto il resto..."
    /\ string_counter = 0
    /\ val_counter = 9

\* C10: building a Scalar record advances the float cursor by one modulo
\* 10 and leaves the string cursor; building a Message record advances
\* the string cursor by one modulo 7 and leaves the float cursor; every
\* other step, building a Vector record and entering or leaving
\* fill_export_data included, leaves both; the tables never change.
C10_CursorFrame ==
    [][/\ op' = "get_value_struct" =>
            /\ val_counter' = (val_counter + 1) % 10
            /\ string_counter' = string_counter
       /\ op' = "get_message_struct" =>
            /\ string_counter' = (string_counter + 1) % 7
            /\ val_counter' = val_counter
       /\ op' \notin {"get_value_struct", "get_message_struct"} =>
            /\ val_counter' = val_counter
            /\ string_counter' = string_counter
       /\ float_array' = FloatArrayInit
       /\ export_strings' = ExportStringsInit]_vars

C10_Witness ==
    /\ fills = 2
    /\ pc = "fill"
    /\ op = "get_m_value_struct"
    /\ i = 2
    /\ data[1].val.val = 4
    /\ val_counter = 4
    /\ string_counter = 3
====
